---- MODULE Spec2Model ----
(***************************************************************************)
(* A model of StockInfoAgent (src/stock_agent.py): the chat loop, the      *)
(* dispatch loop of process_user_query, the reflective execute_tool and    *)
(* the three market-data handlers.                                         *)
(*                                                                         *)
(* Python values are tagged records: [t |-> type name, ...].  A dict is a  *)
(* function from its keys to values; a float is the rational n/d.          *)
(***************************************************************************)
EXTENDS Integers, Sequences, FiniteSets, TLC

VARIABLES
    conversation_history, \* self.conversation_history: the list of turns
    stack,                \* the Python call stack: chat and process_user_query activations
    printed,              \* the last line chat wrote to the operator
    user_input,           \* the last line read by chat's input()
    modelCalls,           \* number of chat.completions.create calls made so far
    inputs,               \* number of lines chat has read so far
    lastCall,             \* the latest model call: what was sent and what came back
    surfaced,             \* ids of the tool calls the dispatch loop has picked up so far
    event,                \* what the last step was
    lookup                \* the latest handler run: its inputs and how it ended

vars == <<conversation_history, stack, printed, user_input, modelCalls, inputs,
          lastCall, surfaced, event, lookup>>

(***************************************************************************)
(* Bounds of the model.                                                    *)
(***************************************************************************)
MaxModelCalls == 3
MaxInputs == 2
MaxDepth == 4

(***************************************************************************)
(* Python values.                                                          *)
(***************************************************************************)
PyNone == [t |-> "NoneType"]
PyStr(s) == [t |-> "str", s |-> s]
PyFloat(n, d) == [t |-> "float", n |-> n, d |-> d]
PyDict(f) == [t |-> "dict", f |-> f]
PyList(l) == [t |-> "list", l |-> l]
\* a pandas DataFrame of search results, identified by its index (the symbols)
PyFrame(ix) == [t |-> "DataFrame", index |-> ix]

EmptyDict == [k \in {} |-> PyNone]

\* bool(v), as used by `or`, `if x:` and `not x`
Truthy(v) ==
    CASE v.t = "NoneType" -> FALSE
      [] v.t = "str" -> v.s # ""
      [] v.t = "float" -> v.n # 0
      [] v.t = "dict" -> DOMAIN v.f # {}
      [] v.t = "list" -> v.l # <<>>
      [] OTHER -> TRUE

\* a or b
PyOr(a, b) == IF Truthy(a) THEN a ELSE b

\* results of a Python expression or call: a value or an exception
Return(v) == [kind |-> "return", value |-> v]
Raise(e) == [kind |-> "raise", exc |-> e]

\* d.get(k) and d.get(k, default) on a value that may not be a dict
DictGet(v, k, default) ==
    IF v.t # "dict" THEN Raise("AttributeError")
    ELSE IF k \in DOMAIN v.f THEN Return(v.f[k]) ELSE Return(default)

(***************************************************************************)
(* Strings: case mapping over the words the model uses, substring test.    *)
(***************************************************************************)
Words ==
    { <<"aapl", "AAPL", "aapl">>, <<"AAPL", "AAPL", "aapl">>,
      <<"sap.de", "SAP.DE", "sap.de">>, <<"Apple", "APPLE", "apple">>,
      <<"quit", "QUIT", "quit">>, <<"Quit", "QUIT", "quit">>,
      <<"EXIT", "EXIT", "exit">>, <<"bye", "BYE", "bye">>,
      <<"goodbye", "GOODBYE", "goodbye">>,
      <<"price of Apple?", "PRICE OF APPLE?", "price of apple?">>,
      <<"who runs SAP?", "WHO RUNS SAP?", "who runs sap?">>,
      <<"Chief Executive Officer", "CHIEF EXECUTIVE OFFICER", "chief executive officer">>,
      <<"CEO & Director", "CEO & DIRECTOR", "ceo & director">>,
      <<"Co-CEO", "CO-CEO", "co-ceo">>,
      <<"Chief Financial Officer", "CHIEF FINANCIAL OFFICER", "chief financial officer">>,
      <<"", "", "">> }

\* s.upper() and s.lower()
Upper(s) == IF \E w \in Words : w[1] = s THEN (CHOOSE w \in Words : w[1] = s)[2] ELSE s
Lower(s) == IF \E w \in Words : w[1] = s THEN (CHOOSE w \in Words : w[1] = s)[3] ELSE s

\* sub in s
Contains(s, sub) == \E i \in 1..(Len(s) - Len(sub) + 1) : SubSeq(s, i, i + Len(sub) - 1) = sub

(***************************************************************************)
(* Numbers: float(), division and the ".2f" format.                        *)
(***************************************************************************)
NumericTexts == { <<"150.00", 15000, 100>>, <<"1.10", 110, 100>>, <<"0", 0, 1>> }

\* float(v)
float(v) ==
    CASE v.t = "float" -> Return(v)
      [] v.t = "str" ->
            IF \E x \in NumericTexts : x[1] = v.s
            THEN LET x == CHOOSE y \in NumericTexts : y[1] = v.s IN Return(PyFloat(x[2], x[3]))
            ELSE Raise("ValueError")
      [] OTHER -> Raise("TypeError")

\* a / b on floats
TrueDiv(a, b) == IF b.n = 0 THEN Raise("ZeroDivisionError") ELSE Return(PyFloat(a.n * b.d, a.d * b.n))

TwoDigits(c) == IF c < 10 THEN "0" \o ToString(c) ELSE ToString(c)

\* f"{v:.2f}": hundredths rounded to nearest; only a float takes the format
Format2f(v) ==
    IF v.t # "float" THEN Raise(IF v.t = "str" THEN "ValueError" ELSE "TypeError")
    ELSE LET cents == (200 * v.n + v.d) \div (2 * v.d)
         IN Return(ToString(cents \div 100) \o "." \o TwoDigits(cents % 100))

\* str(v)
str(v) ==
    CASE v.t = "NoneType" -> "None"
      [] v.t = "str" -> v.s
      [] v.t = "float" -> ToString(v.n) \o "/" \o ToString(v.d)
      [] v.t = "list" -> "[...]"
      [] v.t = "dict" -> "{...}"
      [] OTHER -> "<" \o v.t \o ">"

(***************************************************************************)
(* The market-data provider (yfinance).  A provider state yf maps a symbol *)
(* to what Ticker(symbol).info does: it returns a value or raises.  A      *)
(* symbol the provider does not know has an empty info.  A handler's       *)
(* outcome carries the provider lookups it made, in order.                 *)
(***************************************************************************)
TickerInfo(yf, symbol) == IF symbol \in DOMAIN yf THEN yf[symbol] ELSE Return(PyDict(EmptyDict))

Returned(v, q) == [kind |-> "return", value |-> v, queried |-> q]
Raised(e, q) == [kind |-> "raise", exc |-> e, queried |-> q]

\* d.get(k) where d is known to be a dict
Get(d, k) == DictGet(d, k, PyNone).value

\* f"{current_price:.2f} {currency}"
FormatPrice(current_price, currency, q) ==
    LET f == Format2f(current_price)
    IN IF f.kind = "raise" THEN Raised(f.exc, q)
       ELSE Returned(PyStr(f.value \o " " \o str(currency)), q)

ConvertToEUR_unguarded(current_price, currency, yf, q) ==
    LET forex_symbol == "EUR" \o str(currency) \o "=X"
        q2 == Append(q, forex_symbol)
        fx_info == TickerInfo(yf, forex_symbol)
    IN IF fx_info.kind = "raise" THEN Raised(fx_info.exc, q2)
       ELSE IF fx_info.value.t # "dict" THEN Raised("AttributeError", q2)
       ELSE LET fx_rate == PyOr(PyOr(Get(fx_info.value, "regularMarketPrice"),
                                     Get(fx_info.value, "previousClose")),
                                Get(fx_info.value, "currentPrice"))
            IN IF ~Truthy(fx_rate) THEN FormatPrice(current_price, currency, q2)
               ELSE LET p == float(current_price)
                        r == float(fx_rate)
                    IN IF p.kind = "raise" THEN Raised(p.exc, q2)
                       ELSE IF r.kind = "raise" THEN Raised(r.exc, q2)
                       ELSE LET price_eur == TrueDiv(p.value, r.value)
                            IN IF price_eur.kind = "raise" THEN Raised(price_eur.exc, q2)
                               ELSE FormatPrice(price_eur.value, PyStr("EUR"), q2)

\* lines 42-58: the conversion to EUR, with its own except clause
ConvertToEUR(current_price, currency, yf, q) ==
    LET forex_symbol == "EUR" \o str(currency) \o "=X"
        q2 == Append(q, forex_symbol)
        fx_info == TickerInfo(yf, forex_symbol)
        native == FormatPrice(current_price, currency, q2)
    IN IF fx_info.kind = "raise" \/ fx_info.value.t # "dict" THEN native
       ELSE LET fx_rate == PyOr(PyOr(Get(fx_info.value, "regularMarketPrice"),
                                     Get(fx_info.value, "previousClose")),
                                Get(fx_info.value, "currentPrice"))
            IN IF ~Truthy(fx_rate) THEN native
               ELSE LET p == float(current_price)
                        r == float(fx_rate)
                    IN IF p.kind = "raise" \/ r.kind = "raise" THEN native
                       ELSE LET price_eur == TrueDiv(p.value, r.value)
                            IN IF price_eur.kind = "raise" THEN native
                               ELSE FormatPrice(price_eur.value, PyStr("EUR"), q2)

get_stock_price_try_converting(ticker_symbol, yf) ==
    IF ticker_symbol.t # "str" THEN Raised("AttributeError", <<>>)
    ELSE LET symbol == Upper(ticker_symbol.s)
             q == <<symbol>>
             info == TickerInfo(yf, symbol)
         IN IF info.kind = "raise" THEN Raised(info.exc, q)
            ELSE IF info.value.t # "dict" THEN Raised("AttributeError", q)
            ELSE LET current_price == PyOr(Get(info.value, "currentPrice"),
                                           Get(info.value, "regularMarketPrice"))
                     currency == DictGet(info.value, "currency", PyStr("USD")).value
                 IN IF current_price = PyNone THEN Returned(PyNone, q)
                    ELSE ConvertToEUR(current_price, currency, yf, q)

\* lines 25-58: the body of get_stock_price's try
get_stock_price_try(ticker_symbol, yf) ==
    IF ticker_symbol.t # "str" THEN Raised("AttributeError", <<>>)
    ELSE LET symbol == Upper(ticker_symbol.s)
             q == <<symbol>>
             info == TickerInfo(yf, symbol)
         IN IF info.kind = "raise" THEN Raised(info.exc, q)
            ELSE IF info.value.t # "dict" THEN Raised("AttributeError", q)
            ELSE LET current_price == PyOr(Get(info.value, "currentPrice"),
                                           Get(info.value, "regularMarketPrice"))
                     currency == DictGet(info.value, "currency", PyStr("USD")).value
                 IN IF current_price = PyNone THEN Returned(PyNone, q)
                    ELSE IF currency = PyStr("EUR") THEN FormatPrice(current_price, currency, q)
                    ELSE ConvertToEUR(current_price, currency, yf, q)

\* the except clause of a handler: any exception becomes None
ExceptNone(r) == IF r.kind = "raise" THEN Returned(PyNone, r.queried) ELSE r

get_stock_price_uncaught(ticker_symbol, yf) == get_stock_price_try(ticker_symbol, yf)

get_stock_price(ticker_symbol, yf) == ExceptNone(get_stock_price_try(ticker_symbol, yf))

(***************************************************************************)
(* get_company_ceo                                                         *)
(***************************************************************************)
IsCeoTitle(title) == Contains(title, "ceo") \/ Contains(title, "chief executive")

\* lines 75-80: the scan of one officer list from position i
RECURSIVE ScanOfficers(_, _)
ScanOfficers(officers, i) ==
    IF i > Len(officers) THEN [kind |-> "nomatch"]
    ELSE LET officer == officers[i]
         IN IF officer.t # "dict" THEN ScanOfficers(officers, i + 1)
            ELSE LET title == DictGet(officer, "title", PyStr("")).value
                 IN IF title.t # "str" THEN Raise("AttributeError")
                    ELSE IF IsCeoTitle(Lower(title.s)) THEN Return(Get(officer, "name"))
                    ELSE ScanOfficers(officers, i + 1)

\* lines 72-80: one round of the loop over the fields, from the ceo found so far
ScanField(info, field, ceo) ==
    IF field \notin DOMAIN info.f THEN Return(ceo)
    ELSE LET officers == info.f[field]
         IN IF officers.t # "list" THEN Return(ceo)
            ELSE LET s == ScanOfficers(officers.l, 1)
                 IN IF s.kind = "nomatch" THEN Return(ceo) ELSE s

\* lines 66-86: the body of get_company_ceo's try
get_company_ceo_try(ticker_symbol, yf) ==
    IF ticker_symbol.t # "str" THEN Raised("AttributeError", <<>>)
    ELSE LET symbol == Upper(ticker_symbol.s)
             q == <<symbol>>
             info == TickerInfo(yf, symbol)
         IN IF info.kind = "raise" THEN Raised(info.exc, q)
            ELSE IF info.value.t # "dict" THEN Raised("TypeError", q)
            ELSE LET first == ScanField(info.value, "companyOfficers", PyNone)
                 IN IF first.kind = "raise" THEN Raised(first.exc, q)
                    ELSE LET second == ScanField(info.value, "officers", first.value)
                         IN IF second.kind = "raise" THEN Raised(second.exc, q)
                            ELSE LET ceo == second.value
                                 IN IF ~Truthy(ceo) /\ "longBusinessSummary" \in DOMAIN info.value.f
                                    THEN Returned(PyNone, q)
                                    ELSE Returned(ceo, q)

get_company_ceo(ticker_symbol, yf) == ExceptNone(get_company_ceo_try(ticker_symbol, yf))

(***************************************************************************)
(* find_ticker_symbol.  A search state lk says what yf.Lookup(name) and    *)
(* its get_stock and get_all do: each returns a frame or raises.           *)
(***************************************************************************)
\* results.index[0] of a non-empty frame
TopResult(frame) == PyStr(frame.index[1])

find_ticker_symbol_try_equity_only(company_name, lk) ==
    IF lk.ctor.kind = "raise" THEN Raised(lk.ctor.exc, <<>>)
    ELSE LET stock_results == lk.get_stock
         IN IF stock_results.kind = "raise" THEN Raised(stock_results.exc, <<"get_stock">>)
            ELSE IF stock_results.value.index # <<>>
                 THEN Returned(TopResult(stock_results.value), <<"get_stock">>)
            ELSE Returned(PyNone, <<"get_stock">>)

\* lines 95-106: the body of find_ticker_symbol's try; None when it falls through
find_ticker_symbol_try(company_name, lk) ==
    IF lk.ctor.kind = "raise" THEN Raised(lk.ctor.exc, <<>>)
    ELSE LET stock_results == lk.get_stock
         IN IF stock_results.kind = "raise" THEN Raised(stock_results.exc, <<"get_stock">>)
            ELSE IF stock_results.value.index # <<>>
                 THEN Returned(TopResult(stock_results.value), <<"get_stock">>)
            ELSE LET all_results == lk.get_all
                     q == <<"get_stock", "get_all">>
                 IN IF all_results.kind = "raise" THEN Raised(all_results.exc, q)
                    ELSE IF all_results.value.index # <<>>
                         THEN Returned(TopResult(all_results.value), q)
                    ELSE Returned(PyNone, q)

find_ticker_symbol(company_name, lk) == ExceptNone(find_ticker_symbol_try(company_name, lk))

\* lines 113-117: the operator's reply, as typed
ask_user_for_clarification(question_to_user, reply) == Returned(PyStr(reply), <<>>)

(***************************************************************************)
(* JSON: the argument texts the model may send, what json.loads makes of   *)
(* each (an ordered mapping, as a sequence of <<key, value>> pairs, or an  *)
(* exception) and what json.dumps writes for a mapping.                    *)
(***************************************************************************)
ArgsBad == "{\"ticker_symbol\": "
ArgsEmpty == "{ }"
ArgsOne == "{\"ticker_symbol\":\"aapl\"}"
ArgsTwo == "{\"company_name\":\"Apple\",\"limit\":\"5\"}"

json_loads(text) ==
    CASE text = ArgsEmpty -> Return(<<>>)
      [] text = ArgsOne -> Return(<< <<"ticker_symbol", PyStr("aapl")>> >>)
      [] text = ArgsTwo -> Return(<< <<"company_name", PyStr("Apple")>>, <<"limit", PyStr("5")>> >>)
      [] OTHER -> Raise("JSONDecodeError")

RECURSIVE DumpItems(_, _)
DumpItems(items, i) ==
    IF i > Len(items) THEN ""
    ELSE (IF i > 1 THEN ", " ELSE "")
         \o "\"" \o items[i][1] \o "\": \"" \o items[i][2].s \o "\""
         \o DumpItems(items, i + 1)

json_dumps(items) == "{" \o DumpItems(items, 1) \o "}"

(***************************************************************************)
(* Turns of conversation_history.                                          *)
(***************************************************************************)
SystemTurn == [role |-> "system", content |-> PyStr("system_prompt")]

\* line 207
UserTurn(user_query) == [role |-> "user", content |-> user_query]

StartQuery_silent(history, user_query) == history

\* lines 204-207: process_user_query begins by appending the user turn
StartQuery(history, user_query) == Append(history, UserTurn(user_query))

AssistantTurn_empty(content) == [role |-> "assistant", content |-> PyNone]

\* line 235
AssistantTurn(content) == [role |-> "assistant", content |-> content]

\* lines 249-260
InvocationTurn(tool_call, function_name, function_args) ==
    [role |-> "assistant", content |-> PyNone,
     tool_calls |-> << [id |-> tool_call.id, type |-> "function",
                        function |-> [name |-> function_name,
                                      arguments |-> json_dumps(function_args)]] >>]

ResultContent_plain(result) == str(result)

\* line 267
ResultContent(result) == IF result # PyNone THEN str(result) ELSE "No result found"

ResultTurn_unlinked(tool_call, function_name, result) ==
    [tool_call_id |-> "", role |-> "tool", name |-> function_name,
     content |-> PyStr(ResultContent(result))]

\* lines 263-268
ResultTurn(tool_call, function_name, result) ==
    [tool_call_id |-> tool_call.id, role |-> "tool", name |-> function_name,
     content |-> PyStr(ResultContent(result))]

\* lines 248-268: the two appends that end an iteration
RecordInvocation(history, tool_call, function_name, function_args, result) ==
    history \o << InvocationTurn(tool_call, function_name, function_args),
                  ResultTurn(tool_call, function_name, result) >>

(***************************************************************************)
(* execute_tool: getattr(self, tool_name, None) finds every attribute of   *)
(* the agent, not only the four capabilities.                              *)
(***************************************************************************)
\* the names create_tool_definitions lists
ToolNames == {"get_stock_price", "get_company_ceo", "find_ticker_symbol",
              "ask_user_for_clarification"}

create_tool_definitions ==
    PyList(<< PyStr("get_stock_price"), PyStr("get_company_ceo"),
              PyStr("find_ticker_symbol"), PyStr("ask_user_for_clarification") >>)

\* the methods of StockInfoAgent and the number of arguments each takes after self
Methods ==
    [get_stock_price |-> 1, get_company_ceo |-> 1, find_ticker_symbol |-> 1,
     ask_user_for_clarification |-> 1, create_tool_definitions |-> 0, execute_tool |-> 2,
     process_user_query |-> 1, chat |-> 0, __init__ |-> 0]

\* the attributes __init__ sets: not callable
DataAttributes == {"client", "conversation_history"}

\* callable(getattr(self, tool_name, None))
IsCallableAttr(tool_name) == tool_name \notin DataAttributes /\ tool_name \in DOMAIN Methods

Enter(method, args) == [kind |-> "enter", method |-> method, args |-> args, queried |-> <<>>]

\* func(*args) for a resolved method: env is what the outside world answers
CallMethod(tool_name, args, env) ==
    IF Len(args) # Methods[tool_name] THEN Raised("TypeError", <<>>)
    ELSE CASE tool_name = "get_stock_price" -> get_stock_price(args[1], env.yf)
           [] tool_name = "get_company_ceo" -> get_company_ceo(args[1], env.yf)
           [] tool_name = "find_ticker_symbol" -> find_ticker_symbol(args[1], env.lk)
           [] tool_name = "ask_user_for_clarification" ->
                  ask_user_for_clarification(args[1], env.reply)
           [] tool_name = "create_tool_definitions" -> Returned(create_tool_definitions, <<>>)
           [] OTHER -> Enter(tool_name, args)

execute_tool_all_values(tool_name, arguments, env) ==
    IF ~IsCallableAttr(tool_name)
    THEN [called |-> "", passed |-> <<>>, out |-> Returned(PyNone, <<>>)]
    ELSE LET values == [i \in DOMAIN arguments |-> arguments[i][2]]
         IN [called |-> tool_name, passed |-> values,
             out |-> CallMethod(tool_name, values, env)]

\* lines 192-202; called is the method that ran, "" when none did, and passed
\* the arguments it was called with
execute_tool(tool_name, arguments, env) ==
    IF ~IsCallableAttr(tool_name)
    THEN [called |-> "", passed |-> <<>>, out |-> Returned(PyNone, <<>>)]
    ELSE IF arguments # <<>>
         THEN LET first_value == arguments[1][2]
              IN [called |-> tool_name, passed |-> <<first_value>>,
                  out |-> CallMethod(tool_name, <<first_value>>, env)]
         ELSE [called |-> tool_name, passed |-> <<>>,
               out |-> CallMethod(tool_name, <<>>, env)]

(***************************************************************************)
(* The outside world of a session: provider states, search states and the  *)
(* operator's lines.                                                       *)
(***************************************************************************)
Info(f) == Return(PyDict(f))

OfficerJane == PyDict([title |-> PyStr("Chief Executive Officer"), name |-> PyStr("Jane Doe")])
OfficerCfo == PyDict([title |-> PyStr("Chief Financial Officer"), name |-> PyStr("John Roe")])

\* Scenario A and D of the specification: AAPL at 150.00 USD, 1.10 USD per EUR
YfUp ==
    [s \in {"AAPL", "EURUSD=X"} |->
        IF s = "AAPL"
        THEN Info([currentPrice |-> PyFloat(15000, 100), currency |-> PyStr("USD"),
                   companyOfficers |-> PyList(<<OfficerCfo, OfficerJane>>)])
        ELSE Info([regularMarketPrice |-> PyFloat(110, 100)])]

\* the provider is unreachable
YfDown == [s \in {"AAPL", "EURUSD=X"} |-> Raise("ConnectionError")]

LkFound == [ctor |-> Return(PyNone), get_stock |-> Return(PyFrame(<<"AAPL", "APLE">>)),
            get_all |-> Return(PyFrame(<<"AAPL.MX">>))]
LkNothing == [ctor |-> Return(PyNone), get_stock |-> Return(PyFrame(<<>>)),
              get_all |-> Return(PyFrame(<<>>))]

Env(yf, lk, reply) == [yf |-> yf, lk |-> lk, reply |-> reply]

\* a world nothing is asked of
YfUnknown == [s \in {} |-> Return(PyNone)]
NoEnv == Env(YfUnknown, LkNothing, "")

\* the answers of the world that matter to a call of tool_name
EnvsFor(tool_name) ==
    CASE tool_name \in {"get_stock_price", "get_company_ceo"} ->
            {Env(yf, LkNothing, "") : yf \in {YfUp, YfDown}}
      [] tool_name = "find_ticker_symbol" ->
            {Env(YfUnknown, lk, "") : lk \in {LkFound, LkNothing}}
      [] tool_name = "ask_user_for_clarification" ->
            {Env(YfUnknown, LkNothing, reply) : reply \in {"Apple", "quit"}}
      [] OTHER -> {NoEnv}

ExitKeywords == {"quit", "exit", "bye"}
OperatorLines == {"quit", "EXIT", "goodbye", "price of Apple?"}

(***************************************************************************)
(* The model's responses.  A response holds a text or None and a list of   *)
(* tool calls; the provider numbers its tool calls, so ids are unique.     *)
(***************************************************************************)
CallId(n, k) == "call_" \o ToString(n) \o "_" \o ToString(k)

ToolCall(id, name, arguments) ==
    [id |-> id, type |-> "function", function |-> [name |-> name, arguments |-> arguments]]

\* the first tool call of a response, by what execute_tool does with it
ToolCallCases ==
    { <<"get_stock_price", ArgsOne>>, <<"get_company_ceo", ArgsOne>>,
      <<"find_ticker_symbol", ArgsTwo>>, <<"ask_user_for_clarification", ArgsOne>>,
      <<"get_stock_price", ArgsEmpty>>, <<"get_company_ceo", ArgsBad>>,
      <<"get_weather", ArgsOne>>, <<"Get_Stock_Price", ArgsOne>>,
      <<"conversation_history", ArgsEmpty>>,
      <<"create_tool_definitions", ArgsEmpty>>, <<"create_tool_definitions", ArgsOne>>,
      <<"__init__", ArgsEmpty>>, <<"process_user_query", ArgsOne>>, <<"chat", ArgsEmpty>> }

\* responses with one tool call, and with a second one behind it
ToolCallLists(n, cases) ==
    { << ToolCall(CallId(n, 1), c[1], c[2]) >> : c \in cases }
    \cup { << ToolCall(CallId(n, 1), "get_stock_price", ArgsOne),
              ToolCall(CallId(n, 2), "get_company_ceo", ArgsOne) >> }

FinalContents == {PyStr("Apple trades at 136.36 EUR."), PyNone}

Response(content, tool_calls) == [content |-> content, tool_calls |-> tool_calls]

(***************************************************************************)
(* The call stack.  A frame is an activation of chat or of                 *)
(* process_user_query; pc is where it waits:                               *)
(*   "input"  chat, at input()                                             *)
(*   "model"  process_user_query, at chat.completions.create               *)
(*   "tool"   process_user_query, inside execute_tool, in a method of the  *)
(*            agent that is the frame above                                *)
(*   "return" the activation has returned ret and its caller resumes       *)
(* sent is, for a frame inside execute_tool, the length the history had    *)
(* when the messages of the running iteration were built (line 218).       *)
(***************************************************************************)
NoToolCall == ToolCall("", "", "")

ChatFrame == [fn |-> "chat", pc |-> "input", tool_call |-> NoToolCall,
              function_args |-> <<>>, ret |-> PyNone, calls |-> 0, ran |-> 0,
              sent |-> 0]

QueryFrame == [fn |-> "process_user_query", pc |-> "model", tool_call |-> NoToolCall,
               function_args |-> <<>>, ret |-> PyNone, calls |-> 0, ran |-> 0,
              sent |-> 0]

Top == stack[Len(stack)]
Below == SubSeq(stack, 1, Len(stack) - 1)
ReplaceTop(frame) == Append(Below, frame)

NoCall == [n |-> 0, messages |-> <<>>, known |-> {}, outcome |-> "none",
           response |-> Response(PyNone, <<>>)]
NoLookup == [tool_name |-> "", called |-> "", args |-> <<>>, passed |-> <<>>, env |-> NoEnv,
             out |-> Returned(PyNone, <<>>)]

\* what chat prints
Say(kind, text) == [kind |-> kind, text |-> text]

Init ==
    /\ conversation_history = <<>>
    /\ stack = <<ChatFrame>>
    /\ printed = Say("banner", "Typ 'quit' om af te sluiten.")
    /\ user_input = ""
    /\ modelCalls = 0
    /\ inputs = 0
    /\ lastCall = NoCall
    /\ surfaced = {}
    /\ event = "init"
    /\ lookup = NoLookup

(***************************************************************************)
(* chat (lines 270-287)                                                    *)
(***************************************************************************)
IsExit_exact(line) == line \in ExitKeywords

\* line 279
IsExit(line) == Lower(line) \in ExitKeywords

AtInput == stack # <<>> /\ Top.fn = "chat" /\ Top.pc = "input"

\* lines 277-281: an exit keyword ends this chat loop
ChatReadsExit ==
    /\ AtInput
    /\ inputs < MaxInputs
    /\ \E line \in OperatorLines :
          /\ IsExit(line)
          /\ user_input' = line
          /\ printed' = Say("bye", "Tot ziens!")
          /\ stack' = ReplaceTop([Top EXCEPT !.pc = "return", !.ret = PyNone])
    /\ inputs' = inputs + 1
    /\ event' = "input_exit"
    /\ lookup' = NoLookup
    /\ UNCHANGED <<conversation_history, modelCalls, lastCall, surfaced>>

\* lines 283-284 and 204-207: any other line starts process_user_query, which
\* appends the user turn and reaches its first model call
ChatReadsQuery ==
    /\ AtInput
    /\ inputs < MaxInputs
    /\ Len(stack) < MaxDepth
    /\ \E line \in OperatorLines :
          /\ ~IsExit(line)
          /\ user_input' = line
          /\ conversation_history' = StartQuery(conversation_history, PyStr(line))
    /\ stack' = Append(stack, QueryFrame)
    /\ inputs' = inputs + 1
    /\ event' = "input_query"
    /\ lookup' = NoLookup
    /\ UNCHANGED <<printed, modelCalls, lastCall, surfaced>>

chat_except_ends(stk) ==
    LET k == CHOOSE i \in 1..Len(stk) :
                 /\ stk[i].fn = "chat"
                 /\ \A j \in (i + 1)..Len(stk) : stk[j].fn # "chat"
    IN SubSeq(stk, 1, k - 1)

\* lines 283-287: an exception leaves every activation above the innermost chat
\* loop, whose except clause keeps that loop at its input()
chat_except(stk) ==
    LET k == CHOOSE i \in 1..Len(stk) :
                 /\ stk[i].fn = "chat"
                 /\ \A j \in (i + 1)..Len(stk) : stk[j].fn # "chat"
    IN SubSeq(stk, 1, k)

(***************************************************************************)
(* process_user_query (lines 204-268): one model call and what follows it, *)
(* up to the next model call, the return or the exception.                 *)
(***************************************************************************)
AtModel ==
    /\ stack # <<>>
    /\ Top.fn = "process_user_query"
    /\ Top.pc = "model"
    /\ modelCalls < MaxModelCalls

\* lines 218-221
Messages(history) == <<SystemTurn>> \o history

CallRecord(outcome, response) ==
    [n |-> modelCalls + 1, messages |-> Messages(conversation_history),
     known |-> surfaced, outcome |-> outcome, response |-> response]

\* lines 224-229: the model call raises
ModelRaises ==
    /\ AtModel
    /\ modelCalls' = modelCalls + 1
    /\ lastCall' = CallRecord("raise", Response(PyNone, <<>>))
    /\ stack' = chat_except(stack)
    /\ printed' = Say("error", "APIError")
    /\ event' = "model_raise"
    /\ lookup' = NoLookup
    /\ UNCHANGED <<conversation_history, user_input, inputs, surfaced>>

\* lines 234-236: no tool calls; atModel says when the model is called
ModelAnswersWhen(atModel) ==
    /\ atModel
    /\ \E content \in FinalContents :
          /\ lastCall' = CallRecord("response", Response(content, <<>>))
          /\ conversation_history' = Append(conversation_history, AssistantTurn(content))
          /\ stack' = ReplaceTop([Top EXCEPT !.pc = "return", !.ret = content,
                                             !.calls = @ + 1])
    /\ modelCalls' = modelCalls + 1
    /\ event' = "final_answer"
    /\ lookup' = NoLookup
    /\ UNCHANGED <<printed, user_input, inputs, surfaced>>

ModelAnswers == ModelAnswersWhen(AtModel)

NextIteration_capped(frame) == [frame EXCEPT !.pc = "return"]

\* line 217: while True, the frame is back at the model call
NextIteration(frame) == [frame EXCEPT !.pc = "model"]

\* line 239
FirstToolCall(response) == response.tool_calls[1]

\* lines 238-268: the first tool call is decoded and executed and the iteration
\* recorded; a method of the agent reached through execute_tool runs as the
\* frame above this one
ModelRequestsToolFrom(cases) ==
    /\ AtModel
    /\ \E tool_calls \in ToolCallLists(modelCalls + 1, cases) :
       LET response == Response(PyNone, tool_calls)
           tool_call == FirstToolCall(response)
           function_name == tool_call.function.name
           function_args == json_loads(tool_call.function.arguments)
       IN
       /\ function_name \in {"process_user_query", "chat"} => Len(stack) < MaxDepth
       /\ lastCall' = CallRecord("response", response)
       /\ surfaced' = surfaced \cup {tool_call.id}
       /\ IF function_args.kind = "raise"
          THEN /\ stack' = chat_except(stack)
               /\ printed' = Say("error", function_args.exc)
               /\ event' = "tool_raise"
               /\ lookup' = NoLookup
               /\ UNCHANGED conversation_history
          ELSE \E env \in EnvsFor(function_name) :
               LET ex == execute_tool(function_name, function_args.value, env)
                   result == ex.out
                   frame == [Top EXCEPT !.calls = @ + 1,
                                        !.ran = @ + (IF ex.called = "" THEN 0 ELSE 1)]
                   waiting == [frame EXCEPT !.pc = "tool", !.tool_call = tool_call,
                                            !.function_args = function_args.value,
                                            !.sent = Len(conversation_history)]
               IN
               /\ lookup' = [tool_name |-> function_name, called |-> ex.called,
                             args |-> function_args.value, passed |-> ex.passed,
                             env |-> env, out |-> result]
               /\ CASE result.kind = "raise" ->
                         /\ stack' = chat_except(stack)
                         /\ printed' = Say("error", result.exc)
                         /\ event' = "tool_raise"
                         /\ UNCHANGED conversation_history
                    [] result.kind = "return" ->
                         /\ conversation_history' =
                               RecordInvocation(conversation_history, tool_call,
                                                function_name, function_args.value,
                                                result.value)
                         /\ stack' = ReplaceTop(NextIteration(frame))
                         /\ event' = "tool_done"
                         /\ UNCHANGED printed
                    [] result.kind = "enter" /\ result.method = "__init__" ->
                         \* lines 12-14 run again: the history is a new empty list
                         /\ conversation_history' =
                               RecordInvocation(<<>>, tool_call, function_name,
                                                function_args.value, PyNone)
                         /\ stack' = ReplaceTop(NextIteration(frame))
                         /\ event' = "tool_done"
                         /\ UNCHANGED printed
                    [] result.kind = "enter" /\ result.method = "process_user_query" ->
                         /\ conversation_history' =
                               StartQuery(conversation_history, result.args[1])
                         /\ stack' = Append(ReplaceTop(waiting), QueryFrame)
                         /\ event' = "tool_enter"
                         /\ UNCHANGED printed
                    [] result.kind = "enter" /\ result.method = "chat" ->
                         /\ stack' = Append(ReplaceTop(waiting), ChatFrame)
                         /\ printed' = Say("banner", "Typ 'quit' om af te sluiten.")
                         /\ event' = "tool_enter"
                         /\ UNCHANGED conversation_history
    /\ modelCalls' = modelCalls + 1
    /\ UNCHANGED <<user_input, inputs>>

ModelRequestsTool == ModelRequestsToolFrom(ToolCallCases)

\* an activation has returned: its caller goes on.  chat prints the answer
\* (line 285); process_user_query, back from execute_tool, records the
\* iteration (lines 248-268); the outermost chat ends the program (line 291)
ReturnToCaller ==
    /\ stack # <<>>
    /\ Top.pc = "return"
    /\ IF Len(stack) = 1
       THEN /\ stack' = <<>>
            /\ event' = "exit"
            /\ UNCHANGED <<conversation_history, printed>>
       ELSE LET caller == stack[Len(stack) - 1]
            IN IF caller.fn = "chat"
               THEN /\ stack' = Below
                    /\ printed' = Say("agent", str(Top.ret))
                    /\ event' = "answer_printed"
                    /\ UNCHANGED conversation_history
               ELSE /\ conversation_history' =
                          RecordInvocation(conversation_history, caller.tool_call,
                                           caller.tool_call.function.name,
                                           caller.function_args, Top.ret)
                    /\ stack' = Append(SubSeq(stack, 1, Len(stack) - 2),
                                       NextIteration([caller EXCEPT
                                                          !.tool_call = NoToolCall,
                                                          !.function_args = <<>>,
                                                          !.sent = 0]))
                    /\ event' = "tool_done"
                    /\ UNCHANGED printed
    /\ lookup' = NoLookup
    /\ UNCHANGED <<user_input, modelCalls, inputs, lastCall, surfaced>>

Next ==
    \/ ChatReadsExit
    \/ ChatReadsQuery
    \/ ModelRaises
    \/ ModelAnswers
    \/ ModelRequestsTool
    \/ ReturnToCaller

Spec == Init /\ [][Next]_vars

(***************************************************************************)
(* Sessions in which the model only names capabilities of                  *)
(* create_tool_definitions.                                                *)
(***************************************************************************)
RegisteredCases == {c \in ToolCallCases : c[1] \in ToolNames}

ModelRequestsCapability == ModelRequestsToolFrom(RegisteredCases)

NextRegistered ==
    \/ ChatReadsExit
    \/ ChatReadsQuery
    \/ ModelRaises
    \/ ModelAnswers
    \/ ModelRequestsCapability
    \/ ReturnToCaller

SpecRegistered == Init /\ [][NextRegistered]_vars

(***************************************************************************)
(* Sessions in which nothing raises and every method run by execute_tool   *)
(* returns, and in which the model, asked often enough, answers without a  *)
(* tool call: the model may always answer, and the return of an activation *)
(* is always carried out.                                                  *)
(***************************************************************************)
\* tool calls that decode and whose method takes what is passed and returns:
\* a capability and, through getattr, process_user_query itself
ReturningCases ==
    {c \in ToolCallCases :
        /\ json_loads(c[2]).kind = "return"
        /\ c[1] \in {"get_stock_price", "process_user_query"}
        /\ IsCallableAttr(c[1]) =>
              Methods[c[1]] = (IF json_loads(c[2]).value # <<>> THEN 1 ELSE 0)}

AtLoopHead == stack # <<>> /\ Top.fn = "process_user_query" /\ Top.pc = "model"

ModelAnswersAtLast == ModelAnswersWhen(AtLoopHead)

ModelRequestsReturningTool == ModelRequestsToolFrom(ReturningCases)

NextReturning ==
    \/ ChatReadsExit
    \/ ChatReadsQuery
    \/ ModelAnswersAtLast
    \/ ModelRequestsReturningTool
    \/ ReturnToCaller

SpecReturning ==
    /\ Init
    /\ [][NextReturning]_vars
    /\ WF_vars(ModelAnswersAtLast)
    /\ WF_vars(ReturnToCaller)

(***************************************************************************)
(* The handlers on their own: execute_tool runs one market-data handler    *)
(* against any state of the provider.                                      *)
(***************************************************************************)
\* marks a key that an info dict does not hold
Absent == [t |-> "absent"]

Prices == {PyNone, PyFloat(15000, 100), PyFloat(0, 1), PyStr("n/a")}
Currencies == {PyNone, PyStr("USD"), PyStr("EUR")}

\* the fields of info that get_stock_price reads; a key given as Absent is left out
PriceInfo(current, regular, currency) ==
    LET keys == (IF current = Absent THEN {} ELSE {"currentPrice"})
                \cup (IF regular = Absent THEN {} ELSE {"regularMarketPrice"})
                \cup (IF currency = Absent THEN {} ELSE {"currency"})
    IN Info([k \in keys |-> CASE k = "currentPrice" -> current
                              [] k = "regularMarketPrice" -> regular
                              [] OTHER -> currency])

PriceInfos ==
    {Raise("ConnectionError"), Return(PyNone)}
    \cup {PriceInfo(c, r, cur) : c \in Prices \cup {Absent},
                                 r \in {Absent, PyFloat(14900, 100)},
                                 cur \in Currencies \cup {Absent}}

FxInfos ==
    {Raise("ConnectionError"), Return(PyNone), Info(EmptyDict),
     Info([regularMarketPrice |-> PyFloat(110, 100)]),
     Info([previousClose |-> PyFloat(125, 100)]),
     Info([regularMarketPrice |-> PyFloat(0, 1), currentPrice |-> PyStr("0")]),
     Info([regularMarketPrice |-> PyStr("n/a")])}

OfficerBob == PyDict([title |-> PyStr("CEO & Director"), name |-> PyStr("Bob Poe")])
OfficerNoTitle == PyDict([name |-> PyStr("Ann Lee")])
OfficerNullTitle == PyDict([title |-> PyNone, name |-> PyStr("Ann Lee")])
OfficerNoName == PyDict([title |-> PyStr("Co-CEO")])

OfficerLists ==
    {Absent, PyStr("n/a"), PyList(<<>>), PyList(<<OfficerCfo>>),
     PyList(<<OfficerCfo, OfficerJane>>), PyList(<<OfficerJane, OfficerBob>>),
     PyList(<<PyStr("n/a"), OfficerNoTitle, OfficerJane>>),
     PyList(<<OfficerNullTitle, OfficerJane>>), PyList(<<OfficerNoName, OfficerJane>>)}

CeoInfo(companyOfficers, officers, summary) ==
    LET keys == (IF companyOfficers = Absent THEN {} ELSE {"companyOfficers"})
                \cup (IF officers = Absent THEN {} ELSE {"officers"})
                \cup (IF summary THEN {"longBusinessSummary"} ELSE {})
    IN Info([k \in keys |-> CASE k = "companyOfficers" -> companyOfficers
                              [] k = "officers" -> officers
                              [] OTHER -> PyStr("Apple Inc. designs phones.")])

CeoInfos ==
    {Raise("ConnectionError"), Return(PyNone)}
    \cup {CeoInfo(c, o, s) : c \in OfficerLists,
                             o \in {Absent, PyList(<<OfficerBob>>), PyList(<<OfficerCfo>>)},
                             s \in BOOLEAN}

SearchResults == {Raise("ConnectionError"), Return(PyFrame(<<>>)),
                  Return(PyFrame(<<"AAPL", "APLE">>))}
Searches ==
    {[ctor |-> c, get_stock |-> s, get_all |-> a] :
        c \in {Return(PyNone), Raise("ConnectionError")},
        s \in SearchResults,
        a \in {Raise("ConnectionError"), Return(PyFrame(<<>>)), Return(PyFrame(<<"AAPL.MX">>))}}

\* a provider that answers info for AAPL and fx for its two forex symbols
Provider(info, fx) ==
    [s \in {"AAPL", "EURUSD=X", "EURNone=X"} |-> IF s = "AAPL" THEN info ELSE fx]

HandlerEnvs(tool_name) ==
    CASE tool_name = "get_stock_price" ->
            {Env(Provider(i, fx), LkNothing, "") : i \in PriceInfos, fx \in FxInfos}
      [] tool_name = "get_company_ceo" ->
            {Env(Provider(i, Info(EmptyDict)), LkNothing, "") : i \in CeoInfos}
      [] OTHER -> {Env(YfUnknown, lk, "") : lk \in Searches}

\* what the model puts in the argument mapping: a symbol, or a number
HandlerArguments == {PyStr("aapl"), PyFloat(5, 1)}

RunsHandler ==
    /\ event = "init"
    /\ \E tool_name \in {"get_stock_price", "get_company_ceo", "find_ticker_symbol"},
          value \in HandlerArguments :
       \E env \in HandlerEnvs(tool_name) :
          LET arguments == << <<"ticker_symbol", value>> >>
              ex == execute_tool(tool_name, arguments, env)
          IN lookup' = [tool_name |-> tool_name, called |-> ex.called, args |-> arguments,
                        passed |-> ex.passed, env |-> env, out |-> ex.out]
    /\ event' = "handler"
    /\ UNCHANGED <<conversation_history, stack, printed, user_input, modelCalls, inputs,
                   lastCall, surfaced>>

HandlerSpec == Init /\ [][RunsHandler]_vars

(***************************************************************************)
(* Properties.                                                             *)
(***************************************************************************)
IsPrefix(a, b) == Len(a) <= Len(b) /\ SubSeq(b, 1, Len(a)) = a
IsInvocation(turn) == turn.role = "assistant" /\ "tool_calls" \in DOMAIN turn
IsTerminal(turn) == turn.role = "assistant" /\ "tool_calls" \notin DOMAIN turn
ToolTurnsFor(history, id) ==
    {i \in DOMAIN history : history[i].role = "tool" /\ history[i].tool_call_id = id}
UserTurns(history) == {i \in DOMAIN history : history[i].role = "user"}
InQuery == stack # <<>> /\ Top.fn = "process_user_query"

\* the history ends with the invocation turn of tool_call and a result turn
\* that holds content
EndsWithIteration(history, tool_call, content) ==
    /\ Len(history) >= 2
    /\ IsInvocation(history[Len(history) - 1])
    /\ history[Len(history) - 1].tool_calls[1].id = tool_call.id
    /\ history[Len(history)].role = "tool"
    /\ history[Len(history)].tool_call_id = tool_call.id
    /\ history[Len(history)].content = PyStr(content)

\* C1: every tool call a response carried is answered by exactly one result
\* turn before the next model call: in the transcript of each model call,
\* every tool call id picked up before that call has exactly one result turn.
C1_ResultBeforeNextCall ==
    \A id \in lastCall.known : Cardinality(ToolTurnsFor(lastCall.messages, id)) = 1

\* C2: a tool call whose name is none of the four capabilities runs no method
\* of the agent, gives None, is recorded with "No result found", and the loop
\* goes on to the next model call.
C2_UnknownNameRunsNothing ==
    (lookup.tool_name # "" /\ lookup.tool_name \notin ToolNames) =>
        /\ lookup.called = ""
        /\ lookup.out.kind = "return"
        /\ lookup.out.value = PyNone
        /\ event = "tool_done"
        /\ EndsWithIteration(conversation_history, FirstToolCall(lastCall.response),
                             "No result found")
        /\ InQuery
        /\ Top.pc = "model"

\* C3: every result turn is immediately preceded by an assistant turn whose
\* single tool_calls entry has the same id and the same function name.
C3_ResultFollowsItsInvocation ==
    \A i \in DOMAIN conversation_history :
        conversation_history[i].role = "tool" =>
            /\ i > 1
            /\ IsInvocation(conversation_history[i - 1])
            /\ Len(conversation_history[i - 1].tool_calls) = 1
            /\ conversation_history[i - 1].tool_calls[1].id
                  = conversation_history[i].tool_call_id
            /\ conversation_history[i - 1].tool_calls[1].function.name
                  = conversation_history[i].name

\* a result turn recorded for a response that carried two tool calls
C3_Witness ==
    /\ event = "tool_done"
    /\ Len(lastCall.response.tool_calls) = 2
    /\ conversation_history[Len(conversation_history)].role = "tool"
    /\ conversation_history[Len(conversation_history)].tool_call_id = CallId(modelCalls, 1)

C5_AnswerEndsQuery ==
    /\ (InQuery /\ Top.pc = "return") =>
          /\ lastCall.outcome = "response"
          /\ lastCall.response.tool_calls = <<>>
          /\ Messages(conversation_history)
                = Append(lastCall.messages,
                         [role |-> "assistant", content |-> lastCall.response.content])
          /\ Top.ret = lastCall.response.content
          /\ Top.calls = 1 => Top.ran = 0
    /\ event = "final_answer" =>
          /\ InQuery
          /\ Top.pc = "return"
          /\ lastCall.n = modelCalls

\* a first response that is a plain text
C5_Witness ==
    /\ InQuery
    /\ Top.pc = "return"
    /\ Top.calls = 1
    /\ Top.ret = PyStr("Apple trades at 136.36 EUR.")
    /\ Len(conversation_history) = 2

\* C6: the history changes only by appends, and each model call is sent the
\* whole history, which extends what every earlier model call was sent.
C6_AppendOnly ==
    [][/\ IsPrefix(conversation_history, conversation_history')
       /\ lastCall'.n # lastCall.n =>
             /\ lastCall'.messages = Messages(conversation_history)
             /\ IsPrefix(lastCall.messages, lastCall'.messages)]_vars

\* C7: a tool call naming a capability with an empty argument mapping, or one
\* with extra fields, raises nothing: the iteration is recorded and the loop
\* goes on to the next model call.
C7_ArgumentsTolerated ==
    (lookup.tool_name \in ToolNames /\ Len(lookup.args) # 1 /\ event # "handler") =>
        /\ lookup.out.kind = "return"
        /\ event = "tool_done"
        /\ EndsWithIteration(conversation_history, FirstToolCall(lastCall.response),
                             ResultContent(lookup.out.value))
        /\ InQuery
        /\ Top.pc = "model"

\* what a handler run was given and what the provider held for it
HandlerArg == lookup.args[1][2]
AskedInfo == TickerInfo(lookup.env.yf, "AAPL")
InfoFailed == AskedInfo.kind = "raise" \/ AskedInfo.value.t # "dict"
Field(d, k) == IF k \in DOMAIN d.f THEN d.f[k] ELSE PyNone
QuotedPrice == PyOr(Field(AskedInfo.value, "currentPrice"),
                    Field(AskedInfo.value, "regularMarketPrice"))
QuotedCurrency ==
    IF "currency" \in DOMAIN AskedInfo.value.f THEN AskedInfo.value.f["currency"]
    ELSE PyStr("USD")
\* the lookup of the price itself failed: no answer, no price, or no number
PriceLookupFailed ==
    \/ HandlerArg.t # "str"
    \/ InfoFailed
    \/ QuotedPrice.t # "float"
AskedFx == TickerInfo(lookup.env.yf, "EUR" \o str(QuotedCurrency) \o "=X")
QuotedRate == PyOr(PyOr(Field(AskedFx.value, "regularMarketPrice"),
                        Field(AskedFx.value, "previousClose")),
                   Field(AskedFx.value, "currentPrice"))
\* the lookup of the rate failed: no answer, or no rate one can divide by
FxLookupFailed ==
    \/ AskedFx.kind = "raise"
    \/ AskedFx.value.t # "dict"
    \/ QuotedRate.t \notin {"float", "str"}
    \/ QuotedRate.t = "float" /\ QuotedRate.n = 0
    \/ QuotedRate.t = "str" /\ QuotedRate.s \in {"", "0", "n/a"}
OfficersMissing ==
    \/ HandlerArg.t # "str"
    \/ InfoFailed
    \/ DOMAIN AskedInfo.value.f \cap {"companyOfficers", "officers"} = {}
SearchFailed ==
    \/ lookup.env.lk.ctor.kind = "raise"
    \/ lookup.env.lk.get_stock.kind = "raise"
    \/ /\ lookup.env.lk.get_stock.value.index = <<>>
       /\ lookup.env.lk.get_all.kind = "raise"

\* C8: whatever the provider does during a lookup by get_stock_price,
\* get_company_ceo or find_ticker_symbol, the handler returns: None when the
\* lookup failed, and for the price handler the price in its own currency
\* when only the rate lookup failed; execute_tool never sees an exception.
C8_HandlersCatchProviderFailures ==
    (lookup.called \in {"get_stock_price", "get_company_ceo", "find_ticker_symbol"}
        /\ Len(lookup.args) = 1) =>
        /\ lookup.out.kind = "return"
        /\ lookup.called = "get_stock_price" =>
              /\ PriceLookupFailed => lookup.out.value = PyNone
              /\ (~PriceLookupFailed /\ QuotedCurrency # PyStr("EUR") /\ FxLookupFailed) =>
                    lookup.out.value
                       = PyStr(Format2f(QuotedPrice).value \o " " \o str(QuotedCurrency))
        /\ (lookup.called = "get_company_ceo" /\ OfficersMissing) =>
              lookup.out.value = PyNone
        /\ (lookup.called = "find_ticker_symbol" /\ SearchFailed) =>
              lookup.out.value = PyNone

\* the provider raises on the symbol's info and the price handler returns None
C8_Witness ==
    /\ lookup.called = "get_stock_price"
    /\ HandlerArg = PyStr("aapl")
    /\ AskedInfo.kind = "raise"
    /\ lookup.out.kind = "return"
    /\ lookup.out.value = PyNone
    /\ lookup.out.queried = <<"AAPL">>

\* C9: when the model call raises, process_user_query is left, chat reports
\* the error and is back at its input; a chat loop ends only after reading an
\* exit keyword.
C9_ModelFailureReported ==
    /\ event = "model_raise" =>
          /\ stack # <<>>
          /\ Top.fn = "chat"
          /\ Top.pc = "input"
          /\ printed.kind = "error"
          /\ lastCall.outcome = "raise"
          /\ Messages(conversation_history) = lastCall.messages
    /\ (stack = <<>> \/ (Top.fn = "chat" /\ Top.pc = "return")) =>
          Lower(user_input) \in {"quit", "exit", "bye"}

\* the second query of a session fails at its model call and chat reads on
C9_Witness ==
    /\ event = "model_raise"
    /\ stack = <<ChatFrame>>
    /\ printed = Say("error", "APIError")
    /\ Cardinality(UserTurns(conversation_history)) = 2

\* C10: per model call at most one handler runs and at most one invocation
\* turn and one result turn are appended, those of the first tool call; no
\* model call is made while a handler is still running.
C10_OneHandlerAtATime ==
    /\ \A i \in DOMAIN stack : stack[i].ran <= stack[i].calls
    /\ (event = "tool_done" /\ lookup.tool_name # "" /\ lookup.out.kind = "return") =>
          /\ Len(conversation_history) <= Len(lastCall.messages) + 1
          /\ EndsWithIteration(conversation_history, FirstToolCall(lastCall.response),
                               ResultContent(lookup.out.value))
    /\ \A i \in DOMAIN stack : \A j \in DOMAIN stack :
          (i < j /\ stack[i].pc = "tool") => stack[j].calls = 0

\* the value an iteration that ends in this step hands to line 267: what
\* execute_tool returned, at once or when the method it entered has returned
IterationResult ==
    IF lookup'.tool_name # ""
    THEN (IF lookup'.out.kind = "return" THEN lookup'.out.value ELSE PyNone)
    ELSE Top.ret

C12_ExitKeywordsEndChat ==
    [][/\ inputs' # inputs =>
             IF Lower(user_input') \in {"quit", "exit", "bye"}
             THEN /\ conversation_history' = conversation_history
                  /\ modelCalls' = modelCalls
                  /\ Len(stack') = Len(stack)
                  /\ Top'.fn = "chat"
                  /\ Top'.pc = "return"
             ELSE /\ stack' = Append(stack, QueryFrame)
                  /\ conversation_history'
                        = Append(conversation_history,
                                 [role |-> "user", content |-> PyStr(user_input')])
       /\ \A i \in DOMAIN stack :
             (stack[i].fn = "chat" /\ stack[i].pc = "input") =>
                \/ i \in DOMAIN stack' /\ stack'[i] = stack[i]
                \/ /\ i = Len(stack)
                   /\ inputs' # inputs
                   /\ Lower(user_input') \in {"quit", "exit", "bye"}]_vars

\* after a query, the operator types EXIT and the chat loop has ended
C12_Witness ==
    /\ event = "input_exit"
    /\ user_input = "EXIT"
    /\ inputs = 2
    /\ stack = <<[ChatFrame EXCEPT !.pc = "return"]>>
    /\ UserTurns(conversation_history) # {}

\* the handler read a price, a number, quoted in another currency than EUR
PriceInOtherCurrency ==
    /\ lookup.called = "get_stock_price"
    /\ Len(lookup.args) = 1
    /\ ~PriceLookupFailed
    /\ QuotedCurrency # PyStr("EUR")

\* C13: with a price in another currency than EUR and a rate lookup that
\* raises, or gives no rate, a zero rate or a rate that is no number,
\* get_stock_price returns the price with two decimals and its own currency
\* code, after having asked for the rate: not None, and no exception.
C13_FxFailureKeepsNativePrice ==
    (PriceInOtherCurrency /\ FxLookupFailed) =>
        /\ lookup.out.kind = "return"
        /\ lookup.out.value.t = "str"
        /\ \E price \in {"150.00", "149.00"}, code \in {"USD", "None"} :
              /\ lookup.out.value.s = price \o " " \o code
              /\ price = Format2f(QuotedPrice).value
              /\ code = str(QuotedCurrency)
        /\ lookup.out.queried = <<"AAPL", "EUR" \o str(QuotedCurrency) \o "=X">>

\* 150.00 USD and a rate of "0": the division by zero is caught
C13_Witness ==
    /\ PriceInOtherCurrency
    /\ QuotedPrice = PyFloat(15000, 100)
    /\ QuotedCurrency = PyStr("USD")
    /\ AskedFx.kind = "return"
    /\ AskedFx.value.t = "dict"
    /\ QuotedRate = PyStr("0")
    /\ lookup.out = Returned(PyStr("150.00 USD"), <<"AAPL", "EURUSD=X">>)

\* the provider answered the price handler with a quote in EUR
QuotedInEUR ==
    /\ lookup.called = "get_stock_price"
    /\ Len(lookup.args) = 1
    /\ HandlerArg.t = "str"
    /\ ~InfoFailed
    /\ QuotedCurrency = PyStr("EUR")

\* C14: for a quote in EUR get_stock_price asks the provider for the symbol
\* and for nothing else, whatever the price is, and a price that is a number
\* is returned with two decimals and "EUR".
C14_NoConversionForEUR ==
    QuotedInEUR =>
        /\ lookup.out.queried = <<"AAPL">>
        /\ QuotedPrice = PyFloat(15000, 100) => lookup.out.value = PyStr("150.00 EUR")
        /\ QuotedPrice = PyFloat(14900, 100) => lookup.out.value = PyStr("149.00 EUR")
        /\ QuotedPrice.t # "float" => lookup.out.value = PyNone

\* 150.00 EUR, while a rate lookup would have answered
C14_Witness ==
    /\ QuotedInEUR
    /\ QuotedPrice = PyFloat(15000, 100)
    /\ TickerInfo(lookup.env.yf, "EURUSD=X") = Info([regularMarketPrice |-> PyFloat(110, 100)])
    /\ lookup.out = Returned(PyStr("150.00 EUR"), <<"AAPL">>)

\* an officer list as the specification describes it: entries with a title
\* and a name; a field the info does not hold counts as an empty list
OfficersOf(field) ==
    IF field \in DOMAIN AskedInfo.value.f THEN AskedInfo.value.f[field] ELSE PyList(<<>>)
WellFormedOfficers(officers) ==
    /\ officers.t = "list"
    /\ \A i \in DOMAIN officers.l :
          /\ officers.l[i].t = "dict"
          /\ {"title", "name"} \subseteq DOMAIN officers.l[i].f
          /\ officers.l[i].f["title"].t = "str"
MatchingEntries(entries) ==
    {i \in DOMAIN entries :
        \/ Contains(Lower(entries[i].f["title"].s), "ceo")
        \/ Contains(Lower(entries[i].f["title"].s), "chief executive")}
FirstMatchName(entries) ==
    IF MatchingEntries(entries) = {} THEN PyNone
    ELSE LET first == CHOOSE i \in MatchingEntries(entries) :
                          \A j \in MatchingEntries(entries) : i <= j
         IN entries[first].f["name"]

\* C15: get_company_ceo returns the name of the first entry, over the
\* companyOfficers list followed by the officers list, whose title holds
\* "ceo" or "chief executive" in any case, and None when there is none.
C15_FirstMatchWins ==
    (/\ lookup.called = "get_company_ceo"
     /\ Len(lookup.args) = 1
     /\ HandlerArg.t = "str"
     /\ ~InfoFailed
     /\ WellFormedOfficers(OfficersOf("companyOfficers"))
     /\ WellFormedOfficers(OfficersOf("officers"))) =>
        /\ lookup.out.kind = "return"
        /\ lookup.out.value
              = FirstMatchName(OfficersOf("companyOfficers").l \o OfficersOf("officers").l)

\* the searches a run of find_ticker_symbol was answered with
SearchRan ==
    /\ lookup.called = "find_ticker_symbol"
    /\ Len(lookup.args) = 1
    /\ lookup.env.lk.ctor.kind = "return"
EquityFound ==
    lookup.env.lk.get_stock.kind = "return" /\ lookup.env.lk.get_stock.value.index # <<>>
EquityEmpty ==
    lookup.env.lk.get_stock.kind = "return" /\ lookup.env.lk.get_stock.value.index = <<>>
AllFound ==
    lookup.env.lk.get_all.kind = "return" /\ lookup.env.lk.get_all.value.index # <<>>
AllEmpty ==
    lookup.env.lk.get_all.kind = "return" /\ lookup.env.lk.get_all.value.index = <<>>

\* C16: find_ticker_symbol returns the first symbol of the equity search when
\* that search found any, else the first symbol of the search over all
\* instruments when that found any, else None; the search over all
\* instruments is made only after the equity search came back empty.
C16_EquityThenAllInstruments ==
    SearchRan =>
        /\ EquityFound =>
              lookup.out = Returned(PyStr(lookup.env.lk.get_stock.value.index[1]),
                                    <<"get_stock">>)
        /\ (EquityEmpty /\ AllFound) =>
              lookup.out = Returned(PyStr(lookup.env.lk.get_all.value.index[1]),
                                    <<"get_stock", "get_all">>)
        /\ (EquityEmpty /\ AllEmpty) =>
              lookup.out = Returned(PyNone, <<"get_stock", "get_all">>)
        /\ (\E i \in DOMAIN lookup.out.queried : lookup.out.queried[i] = "get_all") =>
              /\ EquityEmpty
              /\ lookup.out.queried = <<"get_stock", "get_all">>

\* no equity matches, and the search over all instruments finds AAPL.MX
C16_Witness ==
    /\ SearchRan
    /\ EquityEmpty
    /\ AllFound
    /\ lookup.out = Returned(PyStr("AAPL.MX"), <<"get_stock", "get_all">>)

\* C17: every assistant turn of the history holds either a tool call or a
\* text: an invocation turn has content None and one tool call, a terminal
\* turn has no tool call and a text that is not None.
C17_TextOrInvocation ==
    \A i \in DOMAIN conversation_history :
        conversation_history[i].role = "assistant" =>
            IF "tool_calls" \in DOMAIN conversation_history[i]
            THEN /\ conversation_history[i].content = PyNone
                 /\ Len(conversation_history[i].tool_calls) = 1
            ELSE conversation_history[i].content # PyNone

\* the activation at depth i of the stack is a process_user_query call
QueryRunning(i) ==
    /\ i \in DOMAIN stack
    /\ stack[i].fn = "process_user_query"
    /\ stack[i].pc \in {"model", "tool"}
QueryReturned(i) ==
    /\ i \in DOMAIN stack
    /\ stack[i].fn = "process_user_query"
    /\ stack[i].pc = "return"

\* C18: when nothing raises, every method run returns and the model in the
\* end answers without a tool call, every process_user_query call returns; it
\* returns only on a response without tool calls, and after an iteration on a
\* tool call it is back at the model call, however many iterations went before.
C18_QueryReturnsOnAnswerOnly ==
    /\ \A i \in 1..MaxDepth : QueryRunning(i) ~> QueryReturned(i)
    /\ [](event = "tool_done" => (InQuery /\ Top.pc = "model"))
    /\ [](\A i \in DOMAIN stack :
            QueryReturned(i) =>
               /\ i = Len(stack)
               /\ lastCall.outcome = "response"
               /\ lastCall.response.tool_calls = <<>>
               /\ stack[i].ret = lastCall.response.content)

\* a call that returns on its answer after as many iterations as the model's
\* bound lets the model ask for
C18_Witness ==
    /\ QueryReturned(Len(stack))
    /\ Top.calls = MaxModelCalls + 1
    /\ Top.ran = MaxModelCalls
    /\ Top.ret = PyStr("Apple trades at 136.36 EUR.")

\* C19: a step in which the model call, the decoding of the arguments or the
\* method run by execute_tool raises leaves the history as it was, and every
\* iteration the exception ends finds the history as long as it was when the
\* iteration began; no invocation turn is left without its result turn.
C19_RaisingIterationAppendsNothing ==
    [][event' \in {"model_raise", "tool_raise"} =>
          /\ conversation_history' = conversation_history
          /\ \A i \in DOMAIN stack :
                (i > Len(stack') /\ stack[i].fn = "process_user_query"
                   /\ stack[i].pc = "tool") =>
                      Len(conversation_history') = stack[i].sent
          /\ \A i \in DOMAIN conversation_history' :
                IsInvocation(conversation_history'[i]) =>
                   /\ i < Len(conversation_history')
                   /\ conversation_history'[i + 1].role = "tool"]_vars

\* C20: the method execute_tool resolves is called with the value of the
\* first entry of the mapping as its only argument, under whatever key it
\* stands and whatever follows it, and with no argument for an empty
\* mapping; so a handler gets a value sent under another parameter's name,
\* and a handler given an empty mapping is called short of its parameter.
C20_FirstValueOnly ==
    lookup.called # "" =>
        /\ lookup.called = lookup.tool_name
        /\ lookup.args # <<>> => lookup.passed = <<lookup.args[1][2]>>
        /\ lookup.args = <<>> => lookup.passed = <<>>
        /\ (lookup.called = "ask_user_for_clarification" /\ lookup.args # <<>>) =>
              /\ lookup.args[1][1] = "ticker_symbol"
              /\ lookup.out = Returned(PyStr(lookup.env.reply), <<>>)
        /\ (lookup.called = "find_ticker_symbol" /\ Len(lookup.args) = 2) =>
              lookup.out.kind = "return"
        /\ (lookup.called = "process_user_query" /\ lookup.args # <<>>) =>
              lookup.out = Enter("process_user_query", <<lookup.args[1][2]>>)
        /\ (lookup.called \in ToolNames /\ lookup.args = <<>>) =>
              lookup.out = Raised("TypeError", <<>>)

\* find_ticker_symbol, sent a company name and a limit, is called with the name
C20_Witness ==
    /\ lookup.called = "find_ticker_symbol"
    /\ lookup.args = << <<"company_name", PyStr("Apple")>>, <<"limit", PyStr("5")>> >>
    /\ lookup.passed = <<PyStr("Apple")>>
    /\ lookup.out = Returned(PyStr("AAPL"), <<"get_stock">>)
    /\ event = "tool_done"

====
